---- MODULE Spec2Model ----
(***************************************************************************)
(* A model of scraper/run.py: the multi-site driver (main), the per-site   *)
(* crawl loop (scrape_site) with its fetch fallback chain, the card filter *)
(* of extract_products / allowed_by_filters, and canon_url.                *)
(*                                                                         *)
(* URLs are the numbers 1..NUrls (1 is the site root).  A page's HTML is   *)
(* represented by what the code reads from it: the number of records       *)
(* extract_products returns for it, the list discover_category_links_by_   *)
(* text returns for it, and the list of pagination links (nexts) the       *)
(* selector loop of scrape_site builds from it.                            *)
(***************************************************************************)
EXTENDS Integers, Sequences, FiniteSets, TLC

\* ---------------------------------------------------------------- bounds
NUrls == 3
NSites == 2
MaxRecs == 2
MaxPages == 1
MaxLimit == 2
MaxLen == 4
MaxPrice == 2
WideUrls == 75

\* ------------------------------------------------------ program constants
QueueCap == 60
VisitedCeiling == 5000
CatPages == 3
SeedCap == 10
SitemapCap == 10
CatLinkCap == 12

\* ---------------------------------------------------------------- helpers
Min(a, b) == IF a < b THEN a ELSE b

Range(s) == {s[i] : i \in 1..Len(s)}

NoDup(s) == \A i, j \in 1..Len(s) : i # j => s[i] # s[j]

SeqsUpTo(S, n) == UNION {[1..k -> S] : k \in 0..n}

Take(s, k) == SubSeq(s, 1, Min(k, Len(s)))

URLs == 1..NUrls
RootUrl == 1
Sites == 1..NSites

\* the URLs of a site large enough to fill the queue, and runs of them
WideURLs == 1..WideUrls
Block(a, b) == [i \in 1..(b - a + 1) |-> a + i - 1]

VARIABLES
  nSites,        \* len(sites): the number of lines load_sites returned
  phase,         \* main's position: "main" (between sites), "loop" (inside scrape_site), "done"
  nextSite,      \* index of the next site main's for loop will call
  active,        \* index of the site whose CrawlState the variables below hold (0: none yet)
  status,        \* per site: "pending", "running", "returned", "raised"
  limit,         \* args.limit
  prefer_static, \* scrape_site: prefer_static
  per_site_pages, \* the configured page budget of the active site (override / limits)
  max_pages,     \* scrape_site: max_pages
  queue,         \* scrape_site: queue
  visited,       \* scrape_site: visited
  all_records,   \* scrape_site: len(all_records)
  jsonl,         \* per site: number of records appended to out/snapshot.jsonl
  csv,           \* per site: number of records appended to out/snapshot.csv
  fetchCount,    \* history: per URL, how often fetch(cur) was called for it in the active site
  last,          \* history: what the last loop iteration did
  fnPc,          \* pure-function harness: "idle", "ready", "done"
  fnIn,          \* pure-function harness: the input
  fnOut          \* pure-function harness: the result

crawlVars == <<nSites, phase, nextSite, active, status, limit, prefer_static, per_site_pages, max_pages,
               queue, visited, all_records, jsonl, csv, fetchCount, last>>
fnVars == <<fnPc, fnIn, fnOut>>
vars == <<crawlVars, fnVars>>

\* ------------------------------------------------------------- page model
\* what discover_category_links_by_text returns (it holds no URL twice): here
\* at most one link
CatLists == {s \in SeqsUpTo(URLs, 1) : NoDup(s)}
\* the pagination links a page's selectors match, in order (a link matched by
\* two selectors is listed twice): here at most two
NextLists == SeqsUpTo(URLs, 2)
\* override["seeds"] resolved against the site URL: here at most two
SeedLists == SeqsUpTo(URLs, 2)
\* what try_fetch_sitemap_urls returns (it holds no URL twice): here at most one
SitemapLists == {s \in SeqsUpTo(URLs, 1) : NoDup(s)}

\* `return out[:12]`: what discover_category_links_by_text returns for a page
\* whose qualifying anchors are, in order and without repetition, found
discover_category_links_by_text(found) == Take(found, CatLinkCap)

\* link lists of a large site: 12 override seeds, 16 sitemap URLs that overlap
\* the seeds or not, pages with 30 and with 12 or more qualifying category
\* anchors, a page with 30 pagination links
WideSeedLists == {<<>>, Block(2, 13)}
WideSitemapLists == {<<>>, Block(10, 25), Block(12, 27)}
WideCatLists ==
  {discover_category_links_by_text(found) : found \in {<<>>, Block(22, 51), Block(64, WideUrls)}}
WideNextLists == {<<>>, Block(34, 63)}
Pages == [n : 0..MaxRecs, cats : CatLists, nexts : NextLists]
BlankPage == [n |-> 0, cats |-> <<>>, nexts |-> <<>>]

\* What one acquisition attempt yields: it raises ("fail"), returns the empty
\* string ("empty"), or returns HTML ("ok").
FailOut == [kind |-> "fail", page |-> BlankPage]
EmptyHtml == [kind |-> "empty", page |-> BlankPage]
OkHtml(p) == [kind |-> "ok", page |-> p]
Kinds == {"fail", "empty", "ok"}
Outcome(k, p) == IF k = "ok" THEN OkHtml(p) ELSE IF k = "empty" THEN EmptyHtml ELSE FailOut

\* get_html_dynamic_then_static: d is scrape_with_playwright's outcome, s is
\* fetch_static's.
GetHtmlDynamicThenStatic(d, s) ==
  IF d.kind # "fail" THEN d
  ELSE IF s.kind # "fail" THEN s
  ELSE EmptyHtml

\* scrape_site.fetch: s1 is the static-first attempt, d and s2 the attempts of
\* get_html_dynamic_then_static.
Fetch(prefer, s1, d, s2) ==
  IF prefer /\ s1.kind # "fail" THEN s1
  ELSE GetHtmlDynamicThenStatic(d, s2)

\* Every result fetch(cur) can have, with whether every attempt made raised.
\* An attempt that returns HTML returns BlankPage here; WithPage puts the page
\* read in this iteration in its place (fetch returns one attempt's value
\* unchanged, so which page it is does not influence which attempt is taken).
FetchCases(prefer) ==
  {[html |-> Fetch(prefer, Outcome(k[1], BlankPage), Outcome(k[2], BlankPage),
                   Outcome(k[3], BlankPage)),
    allFailed |-> (prefer => k[1] = "fail") /\ k[2] = "fail" /\ k[3] = "fail"]
     : k \in Kinds \X Kinds \X Kinds}

WithPage(html, p) == IF html.kind = "ok" THEN OkHtml(p) ELSE html

\* The recovery acquisition's results for a page whose first HTML is html.  The
\* code reads only the records of html2 and whether it equals html, so the
\* other recovery pages carry no links.
RecoveryPages(html) ==
  {html.page} \cup {[n |-> k, cats |-> <<>>, nexts |-> <<>>] : k \in 0..MaxRecs}
RecoveryResults(html) ==
  {GetHtmlDynamicThenStatic(Outcome(k[1], p), Outcome(k[2], p))
     : k \in Kinds \X Kinds, p \in RecoveryPages(html)}

\* the empty string
IsEmpty(html) == html.kind = "empty"

\* mutant: the empty result is processed like a page
SoftSkip_Never(html) == FALSE

\* `if not html: continue`
SoftSkip(html) == IsEmpty(html)

\* len(extract_products(html, ...))
ExtractCount(html) == html.page.n

\* mutant: the recovery pass ignores the render preference
Escalate_AnySite(prefer, recs) == recs = 0

\* `if prefer_static and not recs`
Escalate(prefer, recs) == prefer /\ recs = 0

\* `if html2 and html2 != html`
UseRecovery(html, html2) == ~IsEmpty(html2) /\ html2 # html

\* mutant: the batch is written whole
Truncate_None(recs, need) == recs

\* `recs = recs[:need]`
Truncate(recs, need) == Min(recs, need)

\* mutant: the URL is not recorded as visited
VisitedAdd_Forget(vis, cur) == vis

\* `visited.add(cur)`
VisitedAdd(vis, cur) == vis \cup {cur}

\* the enqueue guard of the category loop
\* mutant: the category enqueue guard does not test the queue length
CanEnqueue_NoCap(u, vis, q) == u \notin vis /\ u \notin Range(q)

CanEnqueue(u, vis, q) == u \notin vis /\ u \notin Range(q) /\ Len(q) < QueueCap

\* mutant: the pagination guard does not consult the visited set
CanEnqueueNext_NoVisited(u, vis, q, seen) ==
  u \notin Range(q) /\ u \notin seen /\ Len(q) < QueueCap

\* the enqueue guard of the pagination loop
CanEnqueueNext(u, vis, q, seen) ==
  u \notin vis /\ u \notin Range(q) /\ u \notin seen /\ Len(q) < QueueCap

\* mutant: pagination discovery runs whatever the budget
PaginationRuns_Always(budget) == TRUE

\* `if max_pages > 0:`
PaginationRuns(budget) == budget > 0

\* `if len(visited) <= 3:`
CategoryRuns(vis) == Cardinality(vis) <= CatPages

RECURSIVE EnqueueCats(_, _, _)
EnqueueCats(links, vis, q) ==
  IF links = <<>> THEN q
  ELSE IF CanEnqueue(Head(links), vis, q)
       THEN EnqueueCats(Tail(links), vis, Append(q, Head(links)))
       ELSE EnqueueCats(Tail(links), vis, q)

RECURSIVE EnqueueNexts(_, _, _, _)
EnqueueNexts(links, vis, q, seen) ==
  IF links = <<>> THEN q
  ELSE IF CanEnqueueNext(Head(links), vis, q, seen)
       THEN EnqueueNexts(Tail(links), vis, Append(q, Head(links)), seen \cup {Head(links)})
       ELSE EnqueueNexts(Tail(links), vis, q, seen)

\* the seeding loops: `if u not in queue: queue.append(u)`
RECURSIVE SeedAll(_, _)
SeedAll(links, q) ==
  IF links = <<>> THEN q
  ELSE IF Head(links) \notin Range(q)
       THEN SeedAll(Tail(links), Append(q, Head(links)))
       ELSE SeedAll(Tail(links), q)

\* queue after the seeding phase of scrape_site
SeedQueue(seeds, sm) == SeedAll(Take(sm, SitemapCap), SeedAll(Take(seeds, SeedCap), <<RootUrl>>))

\* the while condition
LoopCond(q, recs, vis, lim) ==
  q # <<>> /\ (lim = 0 \/ recs < lim) /\ Cardinality(vis) < VisitedCeiling

\* `return all_records if unlimited else all_records[:limit]`
ReturnCount(recs, lim) == IF lim = 0 THEN recs ELSE Min(recs, lim)

\* mutant: an exception from scrape_site ends the for loop
AfterSite_Abort(i, outcome) == IF outcome = "raised" THEN NSites + 1 ELSE i + 1

\* main: the index the for loop moves to after scrape_site(sites[i]) ended
\* (returned or raised; the except clause only prints).
AfterSite(i, outcome) == i + 1

\* ------------------------------------------------------------- canon_url
\* URL strings are sequences over this alphabet: a letter, the delimiters
\* urlparse splits on, and "[" (an unmatched bracket in the host makes urlparse
\* raise ValueError).
Alphabet == {"a", ":", "/", "?", "#", ";", "["}
Strings == SeqsUpTo(Alphabet, MaxLen)
\* urllib.parse.scheme_chars, as far as the alphabet goes
SchemeChars == {"a"}
\* the schemes of urllib.parse.uses_params that the alphabet can spell
UsesParams == {<<>>}

\* str.find(c, start): the least index >= start holding c; 0 when there is none
FindFrom(s, c, start) ==
  IF \E i \in start..Len(s) : s[i] = c
  THEN CHOOSE i \in start..Len(s) : s[i] = c /\ \A j \in start..(i - 1) : s[j] # c
  ELSE 0

\* str.rfind(c): the greatest index holding c; 0 when there is none
RFind(s, c) ==
  IF \E i \in 1..Len(s) : s[i] = c
  THEN CHOOSE i \in 1..Len(s) : s[i] = c /\ \A j \in (i + 1)..Len(s) : s[j] # c
  ELSE 0

\* s.split(c, 1)[0]
Before(s, c) == IF FindFrom(s, c, 1) = 0 THEN s ELSE SubSeq(s, 1, FindFrom(s, c, 1) - 1)

\* str.rstrip("/")
RECURSIVE RStripSlash(_)
RStripSlash(s) ==
  IF s # <<>> /\ s[Len(s)] = "/" THEN RStripSlash(SubSeq(s, 1, Len(s) - 1)) ELSE s

\* urllib.parse._splitnetloc(url, 2): the index where the host part ends
NetlocEnd(s) ==
  LET ds == {FindFrom(s, c, 3) : c \in {"/", "?", "#"}} \ {0}
  IN IF ds = {} THEN Len(s) + 1 ELSE CHOOSE d \in ds : \A e \in ds : d <= e

\* urllib.parse._splitparams(url)[0]
SplitParams(path) ==
  LET i == IF FindFrom(path, "/", 1) # 0
           THEN FindFrom(path, ";", RFind(path, "/"))
           ELSE FindFrom(path, ";", 1)
  IN IF i = 0 THEN path ELSE SubSeq(path, 1, i - 1)

\* urllib.parse.urlparse(u): scheme, netloc and path, and whether it raises
UrlParse(u) ==
  LET i == FindFrom(u, ":", 1)
      hasScheme == i > 1 /\ \A k \in 1..(i - 1) : u[k] \in SchemeChars
      scheme == IF hasScheme THEN SubSeq(u, 1, i - 1) ELSE <<>>
      rest == IF hasScheme THEN SubSeq(u, i + 1, Len(u)) ELSE u
      hasNetloc == Len(rest) >= 2 /\ rest[1] = "/" /\ rest[2] = "/"
      netloc == IF hasNetloc THEN SubSeq(rest, 3, NetlocEnd(rest) - 1) ELSE <<>>
      url == IF hasNetloc THEN SubSeq(rest, NetlocEnd(rest), Len(rest)) ELSE rest
      path == Before(Before(url, "#"), "?")
  IN [raises |-> \E k \in 1..Len(netloc) : netloc[k] = "[",
      scheme |-> scheme,
      netloc |-> netloc,
      path |-> IF scheme \in UsesParams /\ FindFrom(path, ";", 1) # 0
               THEN SplitParams(path) ELSE path]

canon_url(u) ==
  LET p == UrlParse(u)
  IN IF p.raises THEN RStripSlash(u)
     ELSE RStripSlash(p.scheme \o <<":", "/", "/">> \o p.netloc \o p.path)

\* ------------------------------------------------- extract_products filter
NoneVal == -1
NotANumber == -2
Words == {"kw"}
PriceVals == {NoneVal} \cup 0..MaxPrice
RangeVals == {NoneVal, NotANumber} \cup 0..MaxPrice

\* A card as extract_products sees it after field extraction: whether a name
\* was found and which keywords it contains, which keywords the absolute URL
\* contains, whether it contains one of the built-in path fragments, whether it
\* equals base_url, and the price parse_price returned (NoneVal: no price).
Cards ==
  {c \in [hasName : BOOLEAN, nameWords : SUBSET Words, urlWords : SUBSET Words,
          builtin : BOOLEAN, isBase : BOOLEAN, price : PriceVals]
     : ~c.hasName => c.nameWords = {}}

\* cfg: filters.include_keywords, filters.exclude_keywords, price_filter.min/max
Cfgs == [inc : SUBSET Words, exc : SUBSET Words, min : RangeVals, max : RangeVals]

\* `float(pf.get("min")) if ... else None`, with `lo = hi = None` when either
\* conversion raises
FilterLo(cfg) == IF cfg.min = NotANumber \/ cfg.max = NotANumber THEN NoneVal ELSE cfg.min
FilterHi(cfg) == IF cfg.min = NotANumber \/ cfg.max = NotANumber THEN NoneVal ELSE cfg.max

allowed_by_filters(card, cfg, price) ==
  LET contains(w) == w \in card.nameWords \/ w \in card.urlWords
      lo == FilterLo(cfg)
      hi == FilterHi(cfg)
      hit == (\E w \in cfg.inc : contains(w)) \/ card.builtin
  IN IF \E w \in cfg.exc : contains(w) THEN FALSE
     ELSE IF price # NoneVal /\ lo # NoneVal /\ price < lo THEN FALSE
     ELSE IF price # NoneVal /\ hi # NoneVal /\ price > hi THEN FALSE
     ELSE IF cfg.inc # {} /\ ~hit THEN FALSE
     ELSE TRUE

\* mutant: cards with unknown price are left to allowed_by_filters
PriceUnknownSkip_Never(card, cfg) == FALSE

\* `if (price_val is None) and (pf.get("min") is not None): continue`
PriceUnknownSkip(card, cfg) == card.price = NoneVal /\ cfg.min # NoneVal

\* `if not name and not price_val and url == base_url: continue`
NoiseSkip(card) == ~card.hasName /\ card.price \in {NoneVal, 0} /\ card.isBase

\* the records extract_products appends for one card
ExtractCard(card, cfg) ==
  IF PriceUnknownSkip(card, cfg) THEN <<>>
  ELSE IF ~allowed_by_filters(card, cfg, card.price) THEN <<>>
  ELSE IF NoiseSkip(card) THEN <<>>
  ELSE <<[hasName |-> card.hasName, price_value |-> card.price]>>


\* ------------------------------------------------------------- history
NoLast == [kind |-> "none", allFailed |-> FALSE, first |-> 0, recoveries |-> 0,
           html2n |-> 0, recs |-> 0, dropped |-> 0, raise |-> "none", sawVisited |-> FALSE,
           budget |-> 0, catsRan |-> FALSE, catsAdded |-> 0]

RaiseStages == {"none", "extract", "recover", "jsonl", "csv", "cats", "next"}
Rank(s) == CASE s = "extract" -> 1 [] s = "recover" -> 2 [] s = "jsonl" -> 3
             [] s = "csv" -> 4 [] s = "cats" -> 5 [] s = "next" -> 6 [] OTHER -> 7

\* ------------------------------------------------------------- actions
IdleCrawl ==
  /\ nSites = 0 /\ phase = "idle" /\ nextSite = 0 /\ active = 0
  /\ status = [i \in Sites |-> "pending"]
  /\ limit = 0 /\ prefer_static = FALSE /\ per_site_pages = 0 /\ max_pages = 0
  /\ queue = <<>> /\ visited = {} /\ all_records = 0
  /\ jsonl = [i \in Sites |-> 0] /\ csv = [i \in Sites |-> 0]
  /\ fetchCount = [u \in URLs |-> 0] /\ last = NoLast

IdleFn == fnPc = "idle" /\ fnIn = <<>> /\ fnOut = <<>>

\* main up to its for loop, for a site list of n sites: the limit is parsed,
\* old output files are removed.
MainStart(n, U) ==
  /\ nSites = n /\ phase = "main" /\ nextSite = 1 /\ active = 0
  /\ status = [i \in Sites |-> "pending"]
  /\ limit \in 0..MaxLimit
  /\ prefer_static = FALSE /\ per_site_pages = 0 /\ max_pages = 0
  /\ queue = <<>> /\ visited = {} /\ all_records = 0
  /\ jsonl = [i \in Sites |-> 0] /\ csv = [i \in Sites |-> 0]
  /\ fetchCount = [u \in U |-> 0] /\ last = NoLast
  /\ IdleFn

\* a run over a site list holding one site
Init == MainStart(1, URLs)

\* a run over a site list holding NSites sites
InitMain == MainStart(NSites, URLs)

\* main calls scrape_site(site, cfg, limit); scrape_site runs up to its while
\* loop: the override is resolved and the queue is seeded.
CallSite(prefs, budgets, seedLists, smLists) ==
  /\ phase = "main" /\ nextSite <= nSites
  /\ \E pref \in prefs, pages \in budgets,
        seeds \in seedLists, sm \in smLists :
       /\ prefer_static' = pref
       /\ per_site_pages' = pages
       /\ max_pages' = pages
       /\ queue' = SeedQueue(seeds, sm)
  /\ active' = nextSite
  /\ status' = [status EXCEPT ![nextSite] = "running"]
  /\ phase' = "loop"
  /\ visited' = {} /\ all_records' = 0 /\ fetchCount' = [u \in DOMAIN fetchCount |-> 0] /\ last' = NoLast
  /\ UNCHANGED <<nSites, nextSite, limit, jsonl, csv, fnVars>>

\* a site of the small URL universe
MainCallSite == CallSite(BOOLEAN, 0..MaxPages, SeedLists, SitemapLists)

\* scrape_site ends (it returns or an exception leaves it): its locals queue,
\* visited and max_pages are gone, and main's for loop takes over.
EndSite(outcome) ==
  /\ status' = [status EXCEPT ![active] = outcome]
  /\ phase' = "main"
  /\ nextSite' = AfterSite(active, outcome)
  /\ queue' = <<>> /\ visited' = {} /\ max_pages' = 0

\* The body of the while loop from extract_products on, for a page whose HTML
\* is f.html.  write_jsonl and write_csv append record by record: a write that
\* raises has appended part of the batch's records (none if it fails before its
\* loop, all of them if it fails on closing the file).  raiseAt names the call
\* that raises in this iteration ("none": no call raises); html2 is what the
\* recovery acquisition returns if made.
PageBody(cur, q1, vis1, f, html2, raiseAt) ==
  LET html == f.html
      r == Rank(raiseAt)
      first == ExtractCount(html)
      esc == r > 1 /\ Escalate(prefer_static, first)
      reext == esc /\ UseRecovery(html, html2)
      recs == IF reext THEN ExtractCount(html2) ELSE first
      need == limit - all_records
      brk == r > 2 /\ recs > 0 /\ limit # 0 /\ need <= 0
      out == IF recs = 0 THEN 0 ELSE IF limit # 0 THEN Truncate(recs, need) ELSE recs
      doWrite == recs > 0 /\ ~brk
      doCats == ~brk /\ CategoryRuns(vis1)
      doNext == ~brk /\ PaginationRuns(max_pages)
      q2 == IF r > 5 /\ doCats THEN EnqueueCats(html.page.cats, vis1, q1) ELSE q1
      q3 == IF r > 6 /\ doNext THEN EnqueueNexts(html.page.nexts, vis1, q2, {}) ELSE q2
      links == (IF r > 5 /\ doCats THEN Range(html.page.cats) ELSE {})
               \cup (IF r > 6 /\ doNext THEN Range(html.page.nexts) ELSE {})
  IN /\ raiseAt = "recover" => reext
     /\ raiseAt \in {"jsonl", "csv"} => doWrite
     /\ raiseAt = "cats" => doCats
     /\ raiseAt = "next" => doNext
     /\ brk => raiseAt = "none"
     /\ \E part \in (IF raiseAt \in {"jsonl", "csv"} THEN 0..out ELSE {0}) :
          /\ jsonl' = [jsonl EXCEPT ![active] =
                         @ + (IF ~doWrite \/ r < 3 THEN 0 ELSE IF r = 3 THEN part ELSE out)]
          /\ csv' = [csv EXCEPT ![active] =
                       @ + (IF ~doWrite \/ r < 4 THEN 0 ELSE IF r = 4 THEN part ELSE out)]
     /\ all_records' = all_records + (IF doWrite /\ r > 4 THEN out ELSE 0)
     /\ last' = [kind |-> "page", allFailed |-> f.allFailed, first |-> first,
                 recoveries |-> IF esc THEN 1 ELSE 0,
                 html2n |-> IF esc /\ ~IsEmpty(html2) THEN ExtractCount(html2) ELSE 0,
                 recs |-> IF r > 2 THEN recs ELSE 0,
                 dropped |-> IF doWrite /\ r > 4 THEN recs - out ELSE 0,
                 raise |-> raiseAt,
                 sawVisited |-> links \cap vis1 # {},
                 budget |-> max_pages,
                 catsRan |-> r > 5 /\ doCats,
                 catsAdded |-> Len(q2) - Len(q1)]
     /\ IF raiseAt # "none" THEN EndSite("raised")
        ELSE IF brk THEN EndSite("returned")
        ELSE /\ queue' = q3
             /\ visited' = vis1
             /\ max_pages' = (IF doNext THEN max_pages - 1 ELSE max_pages)
             /\ UNCHANGED <<status, phase, nextSite>>

\* The pages an iteration can meet, as far as it reads them: the records if
\* extract_products returns, the category links if discovery runs and returns,
\* the pagination links if the selector loop runs and returns.
PagesRead(html, raiseAt, vis1, budget, ns, cs, xs) ==
  IF html.kind # "ok" THEN {BlankPage}
  ELSE [n : IF Rank(raiseAt) > 1 THEN ns ELSE {0},
        cats : IF Rank(raiseAt) > 5 /\ CategoryRuns(vis1) THEN cs ELSE {<<>>},
        nexts : IF Rank(raiseAt) > 6 /\ PaginationRuns(budget) THEN xs ELSE {<<>>}]

\* One iteration of scrape_site's while loop, over pages with record counts
\* ns, category lists cs and pagination lists xs, raising at one of stages.
Iteration(stages, ns, cs, xs) ==
  /\ phase = "loop"
  /\ LoopCond(queue, all_records, visited, limit)
  /\ LET cur == Head(queue)
         q1 == Tail(queue)
     IN IF cur \in visited
        THEN /\ queue' = q1
             /\ last' = [NoLast EXCEPT !.kind = "revisit", !.budget = max_pages]
             /\ UNCHANGED <<visited, fetchCount, status, phase, nextSite, all_records,
                            jsonl, csv, max_pages>>
        ELSE /\ fetchCount' = [fetchCount EXCEPT ![cur] = @ + 1]
             /\ \E c \in FetchCases(prefer_static) :
                  IF SoftSkip(c.html)
                  THEN /\ queue' = q1
                       /\ visited' = VisitedAdd(visited, cur)
                       /\ last' = [NoLast EXCEPT !.kind = "skip", !.allFailed = c.allFailed,
                                                 !.budget = max_pages]
                       /\ UNCHANGED <<status, phase, nextSite, all_records, jsonl, csv,
                                      max_pages>>
                  ELSE \E raiseAt \in stages :
                       \E p \in PagesRead(c.html, raiseAt, VisitedAdd(visited, cur), max_pages,
                                           ns, cs, xs) :
                       \E html2 \in (IF raiseAt # "extract" /\ Escalate(prefer_static, p.n)
                                     THEN RecoveryResults(WithPage(c.html, p))
                                     ELSE {EmptyHtml}) :
                         PageBody(cur, q1, VisitedAdd(visited, cur),
                                  [html |-> WithPage(c.html, p), allFailed |-> c.allFailed],
                                  html2, raiseAt)
  /\ UNCHANGED <<nSites, active, limit, prefer_static, per_site_pages, fnVars>>

\* an iteration on a site of the small URL universe
LoopIteration == Iteration(RaiseStages, 0..MaxRecs, CatLists, NextLists)

\* The while condition is false: scrape_site returns.
ReturnSite ==
  /\ phase = "loop"
  /\ ~LoopCond(queue, all_records, visited, limit)
  /\ EndSite("returned")
  /\ UNCHANGED <<nSites, active, limit, prefer_static, per_site_pages, all_records,
                 jsonl, csv, fetchCount, last, fnVars>>

\* main after its for loop: missing output files are created empty.
MainFinish ==
  /\ phase = "main" /\ nextSite > nSites
  /\ phase' = "done"
  /\ UNCHANGED <<nSites, nextSite, active, status, limit, prefer_static, per_site_pages,
                 max_pages, queue,
                 visited, all_records, jsonl, csv, fetchCount, last, fnVars>>

Next == MainCallSite \/ LoopIteration \/ ReturnSite \/ MainFinish

Spec == Init /\ [][Next]_vars

SpecMain == InitMain /\ [][Next]_vars

\* A run over one large site: its pages carry long link lists and no records,
\* so the crawl is not cut short by the record limit.
InitQueue == MainStart(1, WideURLs)

WideCallSite == CallSite({FALSE}, 0..MaxPages, WideSeedLists, WideSitemapLists)

WideIteration == Iteration(RaiseStages, {0}, WideCatLists, WideNextLists)

NextQueue == WideCallSite \/ WideIteration \/ ReturnSite \/ MainFinish

SpecQueue == InitQueue /\ [][NextQueue]_vars

\* ------------------------------------------------ pure-function harnesses
InitCanon == IdleCrawl /\ fnPc = "ready" /\ fnIn \in Strings /\ fnOut = <<>>

CanonStep ==
  /\ fnPc = "ready"
  /\ fnOut' = [once |-> canon_url(fnIn), twice |-> canon_url(canon_url(fnIn))]
  /\ fnPc' = "done"
  /\ UNCHANGED <<fnIn, crawlVars>>

SpecCanon == InitCanon /\ [][CanonStep]_vars

InitFilter ==
  IdleCrawl /\ fnPc = "ready" /\ fnIn \in [card : Cards, cfg : Cfgs] /\ fnOut = <<>>

FilterStep ==
  /\ fnPc = "ready"
  /\ fnOut' = ExtractCard(fnIn.card, fnIn.cfg)
  /\ fnPc' = "done"
  /\ UNCHANGED <<fnIn, crawlVars>>

SpecFilter == InitFilter /\ [][FilterStep]_vars

\* ------------------------------------------------------------- claims
Finished == {"returned", "raised"}

\* C1: within one scrape_site call no URL is handed to fetch (and added to
\* visited) more than once, also when it is seeded or discovered again.
C1_NoUrlVisitedTwice == \A u \in URLs : fetchCount[u] <= 1

C1_Witness ==
  /\ phase = "loop" /\ last.sawVisited
  /\ Cardinality({u \in URLs : fetchCount[u] = 1}) >= 2

\* C2: the queue never holds a URL twice and never holds a visited URL.
C2_QueueFresh == NoDup(queue) /\ Range(queue) \cap visited = {}

C2_Witness ==
  /\ phase = "loop" /\ last.sawVisited /\ last.kind = "page"
  /\ queue # <<>> /\ visited # {}

\* C3: an exception raised while one page is processed does not end the site's
\* crawl: after it the loop of scrape_site is still running.
C3_PageFailureContained == last.raise # "none" => phase = "loop"

\* C4: main calls scrape_site for every site in order, whether or not an
\* earlier call raised, and what a site wrote to the sinks is never removed.
C4_SiteFailureIsolated ==
  /\ [](/\ phase = "done" => \A i \in 1..nSites : status[i] \in Finished
        /\ \A i \in Sites : status[i] # "pending" =>
             \A j \in 1..(i - 1) : status[j] \in Finished
        /\ \A i \in Sites : status[i] = "raised" /\ i < nSites /\ phase = "main" =>
             (nextSite = i + 1 \/ status[i + 1] # "pending"))
  /\ [][\A i \in Sites :
          /\ jsonl'[i] >= jsonl[i] /\ csv'[i] >= csv[i]
          /\ status[i] \in Finished => jsonl'[i] = jsonl[i] /\ csv'[i] = csv[i]]_vars

C4_Witness ==
  /\ status[1] = "raised" /\ jsonl[1] > 0
  /\ status[2] = "returned" /\ jsonl[2] > 0 /\ phase = "done"

\* C5: with limit > 0 no site gets more than limit records into a sink, into
\* all_records or into the value scrape_site returns; with limit = 0 no batch
\* is cut, and a batch is only ever cut down to what fills the limit.
C5_LimitRespected ==
  /\ limit > 0 => /\ \A i \in Sites : jsonl[i] <= limit /\ csv[i] <= limit
                  /\ all_records <= limit
                  /\ ReturnCount(all_records, limit) <= limit
  /\ limit = 0 => last.dropped = 0 /\ ReturnCount(all_records, limit) = all_records
  /\ last.dropped > 0 => all_records = limit

C5_Witness ==
  /\ limit > 0 /\ last.dropped > 0
  /\ active \in Sites /\ jsonl[active] = limit /\ csv[active] = limit

\* C6: the loop of scrape_site is left only from a state in which its
\* condition is false (queue empty, record budget reached, or visited ceiling hit).
C6_StopsOnlyAtExitCondition ==
  [][(phase = "loop" /\ phase' # "loop") => ~LoopCond(queue, all_records, visited, limit)]_vars

\* C7: when every acquisition attempt for a URL fails, the page is soft-skipped:
\* the URL is in visited, nothing is written, nothing is enqueued, the page
\* budget is unchanged, and the loop goes on.
C7_SoftSkipOnTotalFailure ==
  [][(phase = "loop" /\ fetchCount' # fetchCount /\ last'.allFailed) =>
       /\ last'.kind = "skip"
       /\ Head(queue) \in visited'
       /\ queue' = Tail(queue)
       /\ jsonl' = jsonl /\ csv' = csv /\ all_records' = all_records
       /\ max_pages' = max_pages
       /\ phase' = "loop" /\ status' = status]_vars

C7_Witness ==
  /\ phase = "loop" /\ prefer_static /\ last.kind = "skip" /\ last.allFailed
  /\ visited # {} /\ queue # <<>>

\* C10: the recovery acquisition is made once for a page exactly when the site
\* is static-first and the page's first extraction returned no record, and the
\* records of the recovery pass are the page's records.
C10_EscalateOnce ==
  /\ last.kind # "page" => last.recoveries = 0
  /\ (last.kind = "page" /\ last.raise # "extract") =>
       last.recoveries = (IF prefer_static /\ last.first = 0 THEN 1 ELSE 0)
  /\ (last.recoveries = 1 /\ Rank(last.raise) > 2) => last.recs = last.html2n

C10_Witness ==
  /\ last.kind = "page" /\ prefer_static /\ last.first = 0
  /\ last.recoveries = 1 /\ last.recs > 0 /\ last.raise = "none"

\* C8: with price_filter.min configured, a card whose price is unknown yields
\* no record; a record with unknown price exists only without a minimum.
C8_UnknownPriceRejected ==
  fnPc = "done" =>
    /\ (fnIn.cfg.min # NoneVal /\ fnIn.card.price = NoneVal) => fnOut = <<>>
    /\ (fnOut # <<>> /\ fnOut[1].price_value = NoneVal) => fnIn.cfg.min = NoneVal

C8_Witness ==
  /\ fnPc = "done" /\ fnIn.cfg.min # NoneVal /\ fnIn.card.price = NoneVal
  /\ fnIn.card.hasName /\ allowed_by_filters(fnIn.card, fnIn.cfg, NoneVal)
  /\ fnOut = <<>>

\* C9: canon_url(canon_url(u)) = canon_url(u) for every URL string u.
C9_CanonIdempotent == fnPc = "done" => fnOut.twice = fnOut.once

\* C11: the page budget governs pagination only.  In every step of the loop
\* the budget drops by one exactly when a page was processed with a positive
\* budget (pagination discovery ran on it) and is otherwise unchanged; with the
\* budget at zero the queue gains nothing but the page's category links (no
\* pagination link is enqueued) and the budget stays zero;
\* category discovery runs on a processed page whenever at most CatPages URLs
\* are visited, whatever the budget; and whenever the while condition holds the
\* next queued URL can be taken, whatever the budget.
C11_BudgetGovernsPaginationOnly ==
  /\ []((phase = "loop" /\ LoopCond(queue, all_records, visited, limit))
          => ENABLED LoopIteration)
  /\ []((phase = "loop") => (max_pages >= 0 /\ max_pages <= per_site_pages))
  /\ [][(phase = "loop" /\ phase' = "loop") =>
          /\ max_pages' = (IF last'.kind = "page" /\ max_pages > 0
                           THEN max_pages - 1 ELSE max_pages)
          /\ (max_pages = 0 =>
                (Len(queue') = Len(queue) - 1 + last'.catsAdded /\ max_pages' = 0))
          /\ (last'.kind = "page" =>
                last'.catsRan = (Cardinality(visited') <= CatPages))]_vars

C11_Witness ==
  /\ phase = "loop" /\ per_site_pages > 0 /\ max_pages = 0
  /\ last.kind = "page" /\ last.budget = 0
  /\ last.catsRan /\ last.catsAdded > 0
  /\ Cardinality(visited) >= 2

\* C12: the pending queue is bounded.  Whenever a site crawl is running, the
\* queue holds at most QueueCap URLs; right after seeding it holds at most the
\* root, SeedCap override seeds and SitemapCap sitemap URLs.
C12_QueueBounded ==
  /\ Len(queue) <= QueueCap
  /\ (phase = "loop" /\ last.kind = "none") => Len(queue) <= 1 + SeedCap + SitemapCap

C12_Witness ==
  /\ phase = "loop" /\ Len(queue) = QueueCap
  /\ last.kind = "page" /\ last.catsAdded > 0
  /\ Cardinality(visited) >= 2

====
